---------------------------- MODULE Spec2Model ----------------------------
(***************************************************************************)
(* opencmr: indexing a folder of DICOM files into a Study / Series /       *)
(* Instance catalog.  Three scanners are modelled from the source:         *)
(*   CMRDir.from_folder    (modules/pycmr/cmrdir.py,   many studies)       *)
(*   CMRStudy.from_folder  (opencmr/pycmr/cmr_study.py, one study)         *)
(*   DicomDir.__init__ / DicomDir.scan (opencmr/pycmr/dicom_dir.py)        *)
(* together with CMRDir's queries, CMRDir.save / from_file and             *)
(* CMRStudy.from_file.                                                     *)
(*                                                                         *)
(* Representation.                                                         *)
(*  - A Python str that the code slices or replaces (a path) is a sequence *)
(*    of one-character strings; a UID or a tag name, which the code only   *)
(*    compares and uses as a dict key, is a TLA+ string.                   *)
(*  - A Python dict is a function; `k in d` is k \in DOMAIN d.  A dict     *)
(*    whose key order is read (CMRDir.dicomDir) carries its insertion      *)
(*    order in `ord`.                                                      *)
(*  - A tag value is a record tagged with its Python type in `py`.         *)
(*  - A pydicom dataset is a function from the names of the tags that are  *)
(*    present to their values.                                             *)
(*  - os.walk's enumeration order is the order of the folder's `files`     *)
(*    sequence; Init ranges over every such sequence.                      *)
(***************************************************************************)
EXTENDS Integers, Sequences, FiniteSets, TLC

VARIABLES disk, pc, call, err, log, obj, snapshot, loaded

vars == <<disk, pc, call, err, log, obj, snapshot, loaded>>

(***************************************************************************)
(* Bounds                                                                  *)
(***************************************************************************)
\* number of files in the scanned folder of the grouping scenarios
NumFiles == 3

(***************************************************************************)
(* Strings and paths                                                       *)
(***************************************************************************)
Sep == "/"

\* s[i..] starts with old
StartsWithAt(s, old, i) ==
    /\ i + Len(old) - 1 <= Len(s)
    /\ \A k \in 1..Len(old) : s[i + k - 1] = old[k]

RECURSIVE ReplaceFrom(_, _, _)
ReplaceFrom(s, old, i) ==
    IF i > Len(s) THEN << >>
    ELSE IF StartsWithAt(s, old, i) THEN ReplaceFrom(s, old, i + Len(old))
    ELSE <<s[i]>> \o ReplaceFrom(s, old, i + 1)

\* str.replace(old, ''): every non-overlapping occurrence of old, left to
\* right, is removed; an empty old removes nothing
StrRemove(s, old) == IF old = << >> THEN s ELSE ReplaceFrom(s, old, 1)

\* os.path.join(a, b) on POSIX
PathJoin(a, b) ==
    IF b # << >> /\ b[1] = Sep THEN b
    ELSE IF a = << >> \/ a[Len(a)] = Sep THEN a \o b
    ELSE a \o <<Sep>> \o b

RECURSIVE LastSepFrom(_, _)
LastSepFrom(s, i) == IF i = 0 THEN 0 ELSE IF s[i] = Sep THEN i ELSE LastSepFrom(s, i - 1)

\* os.path.basename(p): what follows the last separator
BaseName(p) == SubSeq(p, LastSepFrom(p, Len(p)) + 1, Len(p))

(***************************************************************************)
(* Python values                                                           *)
(***************************************************************************)
PyNone == [py |-> "NoneType"]
PyStr(s) == [py |-> "str", v |-> s]
PyInt(n) == [py |-> "int", v |-> n]
PyList(xs) == [py |-> "list", v |-> xs]
\* pydicom.multival.MultiValue of DS
MultiValue(xs) == [py |-> "MultiValue", v |-> xs]

IsLeaf(x) == "py" \in DOMAIN x

EmptyDict == [k \in {} |-> PyNone]

\* d[k] = v  (insert or overwrite)
DictSet(d, k, v) == (k :> v) @@ d

(***************************************************************************)
(* dicom_ext.read_dicom                                                    *)
(***************************************************************************)
NotDicom == [none |-> TRUE]

\* read_dicom: the forced read never fails; a dataset with at most one
\* element is returned as None
read_dicom(file) ==
    IF Cardinality(DOMAIN file.dcm) <= 1 THEN NotDicom ELSE file.dcm

(***************************************************************************)
(* get_tag (CMRDir.get_tag and CMRStudy.get_tag are the same code)         *)
(***************************************************************************)
get_tag(dcm, tagName) ==
    IF tagName \in DOMAIN dcm
    THEN LET val == dcm[tagName]
         IN  IF val.py = "MultiValue" THEN PyList(val.v) ELSE val
    ELSE PyNone

\* getattr(dcm, tag) if hasattr(dcm, tag) else None  (dicom_dir.py)
getattr_or_none(dcm, tag) == IF tag \in DOMAIN dcm THEN dcm[tag] ELSE PyNone

(***************************************************************************)
(* The file system                                                         *)
(***************************************************************************)
\* the path os.walk builds for a file of a folder
FilePath(root, file) == PathJoin(root, file.name)

IsDir(folder) == \E d \in DOMAIN disk : disk[d].root = folder

FolderOf(folder) == disk[CHOOSE d \in DOMAIN disk : disk[d].root = folder]

\* all_files of one walk: the paths with the file they name
Walk(folder) ==
    IF ~IsDir(folder) THEN << >>
    ELSE LET F == FolderOf(folder).files
         IN  [i \in 1..Len(F) |-> [path |-> FilePath(folder, F[i]), file |-> F[i]]]


(***************************************************************************)
(* CMRDir  (modules/pycmr/cmrdir.py)                                       *)
(***************************************************************************)
CMRDir_STUDY_TAGS ==
    {"StudyInstanceUID", "StudyDescription", "StudyDate", "StudyTime",
     "PatientID", "Manufacturer"}

CMRDir_SERIES_TAGS ==
    {"SeriesInstanceUID", "SeriesDescription", "ProtocolName", "SequenceName"}

CMRDir_INSTANCE_TAGS ==
    {"SOPInstanceUID", "AcquisitionTime", "Rows", "Columns", "TriggerTime",
     "SliceLocation", "SliceThickness", "PixelRepresentation", "PixelSpacing",
     "ImageOrientation", "ImageOrientationPatient",
     "ImagePosition", "ImagePositionPatient"}

\* CMRDir.__init__
CMRDirNew(study_name) ==
    [kind |-> "CMRDir", source |-> << >>, studyName |-> study_name,
     dicomDir |-> [ord |-> << >>, at |-> EmptyDict]]

\* the instance dict of one file: its tags and its Filename
CMRDirInstance(dcm, f, dicomFolder) ==
    DictSet([s \in CMRDir_INSTANCE_TAGS |-> get_tag(dcm, s)],
            "Filename", PyStr(StrRemove(f, PathJoin(dicomFolder, << >>))))

\* CMRDirAddFile with the test `studyIUID not in D.dicomDir` left out: the
\* study entry is made anew for every file
CMRDirAddFile_StudyAlwaysNew(D, item, dicomFolder) ==
    LET dcm == read_dicom(item.file)
    IN  IF dcm = NotDicom THEN D
        ELSE
        LET studyIUID == dcm["StudyInstanceUID"].v
            D1 == [ord |-> IF studyIUID \in DOMAIN D.at THEN D.ord
                           ELSE Append(D.ord, studyIUID),
                   at  |-> DictSet(D.at, studyIUID,
                              [s \in CMRDir_STUDY_TAGS |-> get_tag(dcm, s)])]
            seriesIUID == dcm["SeriesInstanceUID"].v
            st1 == D1.at[studyIUID]
            st2 == IF seriesIUID \notin DOMAIN st1
                   THEN DictSet(st1, seriesIUID,
                                [s \in CMRDir_SERIES_TAGS |-> get_tag(dcm, s)])
                   ELSE st1
            newInstance == CMRDirInstance(dcm, item.path, dicomFolder)
            se2 == DictSet(st2[seriesIUID], dcm["SOPInstanceUID"].v, newInstance)
        IN  [ord |-> D1.ord,
             at  |-> DictSet(D1.at, studyIUID, DictSet(st2, seriesIUID, se2))]

\* one iteration of from_folder's loop over allFiles; D is D.dicomDir
CMRDirAddFile(D, item, dicomFolder) ==
    LET dcm == read_dicom(item.file)
    IN  IF dcm = NotDicom THEN D
        ELSE
        LET studyIUID == dcm["StudyInstanceUID"].v
            D1 == IF studyIUID \notin DOMAIN D.at
                  THEN [ord |-> Append(D.ord, studyIUID),
                        at  |-> DictSet(D.at, studyIUID,
                                   [s \in CMRDir_STUDY_TAGS |-> get_tag(dcm, s)])]
                  ELSE D
            seriesIUID == dcm["SeriesInstanceUID"].v
            st1 == D1.at[studyIUID]
            st2 == IF seriesIUID \notin DOMAIN st1
                   THEN DictSet(st1, seriesIUID,
                                [s \in CMRDir_SERIES_TAGS |-> get_tag(dcm, s)])
                   ELSE st1
            newInstance == CMRDirInstance(dcm, item.path, dicomFolder)
            se2 == DictSet(st2[seriesIUID], dcm["SOPInstanceUID"].v, newInstance)
        IN  [ord |-> D1.ord,
             at  |-> DictSet(D1.at, studyIUID, DictSet(st2, seriesIUID, se2))]

RECURSIVE CMRDirLoop(_, _, _, _)
CMRDirLoop(D, allFiles, i, dicomFolder) ==
    IF i > Len(allFiles) THEN D
    ELSE CMRDirLoop(CMRDirAddFile(D, allFiles[i], dicomFolder),
                    allFiles, i + 1, dicomFolder)

\* the paths from_folder reports with quiet=False
CMRDirReported(allFiles, quiet) ==
    IF quiet THEN {}
    ELSE {allFiles[i].path : i \in {j \in 1..Len(allFiles) :
                                     read_dicom(allFiles[j].file) = NotDicom}}

\* CMRDir.from_folder(dicomFolder, studyName, quiet) on an existing folder
CMRDir_from_folder(dicomFolder, studyName) ==
    LET D0 == CMRDirNew(IF studyName # PyNone THEN studyName
                        ELSE PyStr(BaseName(dicomFolder)))
    IN  [D0 EXCEPT !.source = dicomFolder,
                   !.dicomDir = CMRDirLoop(D0.dicomDir, Walk(dicomFolder), 1,
                                           dicomFolder)]

\* ---- queries ----
is_empty(D) == Cardinality(DOMAIN D.dicomDir.at) = 0

\* list(self.dicomDir.keys()): the study UIDs in insertion order
get_study_uids(D) == D.dicomDir.ord

\* list(set.difference(...)): the order of the list is that of a set
get_series_uids(D, studyUID) ==
    DOMAIN D.dicomDir.at[studyUID] \ CMRDir_STUDY_TAGS

get_sop_uids(D, studyUID, seriesUID) ==
    DOMAIN D.dicomDir.at[studyUID][seriesUID] \ CMRDir_SERIES_TAGS

\* the (study, series, sop) triples get_all_filenames iterates over
CatalogEntries(D) ==
    UNION {UNION {{<<st, se, s>> : s \in get_sop_uids(D, st, se)} :
                     se \in get_series_uids(D, st)} :
              st \in {get_study_uids(D)[i] : i \in 1..Len(get_study_uids(D))}}

\* get_all_filenames: one list entry per triple
get_all_filenames(D) ==
    [e \in CatalogEntries(D) |-> D.dicomDir.at[e[1]][e[2]][e[3]]["Filename"]]

\* get_patient_id(studyUID=None)
get_patient_id(D) ==
    LET ids == D.dicomDir.ord
    IN  IF Len(ids) = 0 THEN PyNone
        ELSE D.dicomDir.at[ids[1]]["PatientID"]

(***************************************************************************)
(* CMRStudy  (opencmr/pycmr/cmr_study.py)                                  *)
(***************************************************************************)
CMRStudy_STUDY_TAGS ==
    {"StudyInstanceUID", "StudyDescription", "StudyDate", "StudyTime",
     "PatientID", "Manufacturer"}

CMRStudy_SERIES_TAGS == {"SeriesDescription", "ProtocolName", "SequenceName"}

CMRStudy_INSTANCE_TAGS ==
    {"AcquisitionTime", "Rows", "Columns", "TriggerTime",
     "SliceLocation", "SliceThickness", "PixelRepresentation", "PixelSpacing",
     "ImageOrientation", "ImageOrientationPatient",
     "ImagePosition", "ImagePositionPatient"}

\* CMRStudy.__init__: a _dcmdir of None becomes dict()
CMRStudyNew(_source, _study_instance_uid, _dcmdir) ==
    [kind |-> "CMRStudy", source |-> _source,
     study_instance_uid |-> _study_instance_uid,
     dcmdir |-> IF _dcmdir = PyNone THEN EmptyDict ELSE _dcmdir]

CMRStudyInstance(dcm, f, folder_name) ==
    DictSet([s \in CMRStudy_INSTANCE_TAGS |-> get_tag(dcm, s)],
            "Filename", PyStr(StrRemove(f, PathJoin(folder_name, << >>))))

\* one iteration of from_folder's loop; L holds the locals study_iuid and dd
\* and the exception raised so far ("ok" when none)
CMRStudyAddFile(L, item, folder_name) ==
    LET dcm == read_dicom(item.file)
    IN  IF L.err # "ok" \/ dcm = NotDicom THEN L
        ELSE
        LET first == (L.study_iuid = PyNone)
            study_iuid == IF first THEN dcm["StudyInstanceUID"] ELSE L.study_iuid
            dd1 == IF first
                   THEN DictSet([t \in CMRStudy_STUDY_TAGS |-> get_tag(dcm, t)],
                                "Series", EmptyDict)
                   ELSE L.dd
            series_iuid == dcm["SeriesInstanceUID"].v
            ser1 == IF series_iuid \notin DOMAIN dd1["Series"]
                    THEN DictSet(dd1["Series"], series_iuid,
                           DictSet([s \in CMRStudy_SERIES_TAGS |-> get_tag(dcm, s)],
                                   "Instances", EmptyDict))
                    ELSE dd1["Series"]
            sop_iuid == dcm["SOPInstanceUID"].v
            insts == ser1[series_iuid]["Instances"]
            new_instance == CMRStudyInstance(dcm, item.path, folder_name)
            ser2 == DictSet(ser1, series_iuid,
                      DictSet(ser1[series_iuid], "Instances",
                              DictSet(insts, sop_iuid, new_instance)))
        IN  IF study_iuid # dcm["StudyInstanceUID"]
            THEN [L EXCEPT !.err = "AssertionError: Found 2 StudyInstanceUID"]
            ELSE IF sop_iuid \in DOMAIN insts
            THEN [L EXCEPT !.err = "AssertionError: Duplicate SOPInstanceUID"]
            ELSE [err |-> "ok", study_iuid |-> study_iuid,
                  dd |-> DictSet(dd1, "Series", ser2)]

RECURSIVE CMRStudyLoop(_, _, _, _)
CMRStudyLoop(L, all_files, i, folder_name) ==
    IF i > Len(all_files) THEN L
    ELSE CMRStudyLoop(CMRStudyAddFile(L, all_files[i], folder_name),
                      all_files, i + 1, folder_name)

\* CMRStudy.from_folder(folder_name) on an existing folder: the exception
\* raised, and the object returned when there is none
CMRStudy_from_folder(folder_name) ==
    LET L == CMRStudyLoop([err |-> "ok", study_iuid |-> PyNone, dd |-> EmptyDict],
                          Walk(folder_name), 1, folder_name)
    IN  [err |-> L.err,
         ret |-> CMRStudyNew(folder_name, L.study_iuid, L.dd)]

\* CMRStudy.is_empty
CMRStudy_is_empty(S) == Cardinality(DOMAIN S.dcmdir) = 0

\* CMRStudy.from_file(file_name): returns the class itself
CMRStudyClass == [kind |-> "class CMRStudy"]

CMRStudy_from_file(file_name) == CMRStudyClass

(***************************************************************************)
(* DicomDir  (opencmr/pycmr/dicom_dir.py)                                  *)
(***************************************************************************)
DicomDir_SERIES_TAGS ==
    {"SeriesInstanceUID", "SeriesNumber", "SeriesDescription", "ProtocolName",
     "SequenceName"}

DicomDir_STUDY_TAGS ==
    {"StudyInstanceUID", "StudyDescription", "PatientID", "StudyDate",
     "StudyTime", "Modality"}

DicomDir_IMAGE_TAGS ==
    {"SOPInstanceUID", "AcquisitionTime", "Rows", "Columns", "TriggerTime",
     "SliceLocation", "SliceThickness", "PixelRepresentation", "PixelSpacing",
     "ImageOrientationPatient", "ImagePositionPatient",
     "SmallestImagePixelValue", "LargestImagePixelValue"}

DicomDir_TAGS == DicomDir_SERIES_TAGS \cup DicomDir_STUDY_TAGS \cup DicomDir_IMAGE_TAGS

\* the second attempt for ImageOrientationPatient and ImagePositionPatient
OldTag(tt) ==
    IF tt = "ImageOrientationPatient" THEN "ImageOrientation" ELSE "ImagePosition"

SecondAttempt(new_tag, dcm, tt) ==
    IF new_tag[tt] = PyNone THEN getattr_or_none(dcm, OldTag(tt)) ELSE new_tag[tt]

\* new_tag of one recognized file; rootFolder is self.dcmdir['RootFolder']
\* as it is while the files are read
DicomDirNewTag(dcm, f, rootFolder) ==
    LET t0 == DictSet([tag \in DicomDir_TAGS |-> getattr_or_none(dcm, tag)],
                      "Filename", PyStr(StrRemove(f, rootFolder)))
    IN  [k \in DOMAIN t0 |->
           IF k \in {"ImageOrientationPatient", "ImagePositionPatient"}
           THEN SecondAttempt(t0, dcm, k) ELSE t0[k]]

RECURSIVE DicomDirAllTags(_, _, _)
DicomDirAllTags(all_files, i, rootFolder) ==
    IF i > Len(all_files) THEN << >>
    ELSE LET dcm == read_dicom(all_files[i].file)
             rest == DicomDirAllTags(all_files, i + 1, rootFolder)
         IN  IF dcm = NotDicom THEN rest
             ELSE <<DicomDirNewTag(dcm, all_files[i].path, rootFolder)>> \o rest

\* the debug lines for the files that are no DICOM
DicomDirReported(all_files, rootFolder) ==
    {StrRemove(all_files[i].path, rootFolder) :
        i \in {j \in 1..Len(all_files) : read_dicom(all_files[j].file) = NotDicom}}

\* set([(t['SeriesInstanceUID'], t['SeriesNumber']) ...])
SeriesKeys(all_tags) ==
    {<<all_tags[i]["SeriesInstanceUID"], all_tags[i]["SeriesNumber"]>> :
        i \in 1..Len(all_tags)}

\* the orders in which a set can be iterated
Orderings(S) ==
    {q \in [1..Cardinality(S) -> S] :
        \A i, j \in 1..Cardinality(S) : q[i] = q[j] => i = j}

\* one series entry: the tags of its first item and the list of its images
DicomDirSeries(all_tags, key) ==
    LET ser_items == SelectSeq(all_tags,
                        LAMBDA t : /\ t["SeriesInstanceUID"] = key[1]
                                   /\ t["SeriesNumber"] = key[2])
    IN  DictSet([t \in DicomDir_SERIES_TAGS |-> ser_items[1][t]],
                "Images",
                [i \in 1..Len(ser_items) |->
                   [img_tag \in {"Filename"} \cup DicomDir_IMAGE_TAGS |->
                      ser_items[i][img_tag]]])

\* the dcmdir that scan builds once both assertions have passed
DicomDirBuild(dcmdir, folder, all_tags, series) ==
    LET d1 == DictSet(dcmdir, "RootFolder", folder)
        d2 == [t \in DicomDir_STUDY_TAGS |-> all_tags[1][t]] @@ d1
    IN  DictSet(d2, "Series",
                [i \in 1..Len(series) |-> DicomDirSeries(all_tags, series[i])])

\* DicomDirScanFiles with the assertion on StudyInstanceUID left out
DicomDirScanFiles_NoStudyAssert(dcmdir, folder, all_files, series) ==
    LET all_tags == DicomDirAllTags(all_files, 1, dcmdir["RootFolder"])
    IN  IF Cardinality({all_tags[i]["PatientID"] : i \in 1..Len(all_tags)}) # 1
        THEN [err |-> "AssertionError: patients", dcmdir |-> dcmdir]
        ELSE [err |-> "ok",
              dcmdir |-> DicomDirBuild(dcmdir, folder, all_tags, series)]

\* DicomDirScanFiles with RootFolder assigned before the two assertions
DicomDirScanFiles_RootFirst(dcmdir, folder, all_files, series) ==
    LET all_tags == DicomDirAllTags(all_files, 1, dcmdir["RootFolder"])
        moved == DictSet(dcmdir, "RootFolder", folder)
    IN  IF Cardinality({all_tags[i]["StudyInstanceUID"] : i \in 1..Len(all_tags)}) # 1
        THEN [err |-> "AssertionError: studies", dcmdir |-> moved]
        ELSE IF Cardinality({all_tags[i]["PatientID"] : i \in 1..Len(all_tags)}) # 1
        THEN [err |-> "AssertionError: patients", dcmdir |-> moved]
        ELSE [err |-> "ok",
              dcmdir |-> DicomDirBuild(dcmdir, folder, all_tags, series)]

\* scan's work on the files one walk gave: the exception raised ("ok" when
\* none) and the object's dict afterwards.  series is the order in which the
\* set of series keys is iterated.
DicomDirScanFiles(dcmdir, folder, all_files, series) ==
    LET all_tags == DicomDirAllTags(all_files, 1, dcmdir["RootFolder"])
    IN  IF Cardinality({all_tags[i]["StudyInstanceUID"] : i \in 1..Len(all_tags)}) # 1
        THEN [err |-> "AssertionError: studies", dcmdir |-> dcmdir]
        ELSE IF Cardinality({all_tags[i]["PatientID"] : i \in 1..Len(all_tags)}) # 1
        THEN [err |-> "AssertionError: patients", dcmdir |-> dcmdir]
        ELSE [err |-> "ok",
              dcmdir |-> DicomDirBuild(dcmdir, folder, all_tags, series)]

\* the folder scan(folder) walks; arg is PyNone for the default
ScanFolder(dcmdir, arg) == IF arg = PyNone THEN dcmdir["RootFolder"] ELSE arg.v

\* DicomDir.scan(folder) on the object whose dict is dcmdir
DicomDir_scan(dcmdir, arg, series) ==
    DicomDirScanFiles(dcmdir, ScanFolder(dcmdir, arg),
                      Walk(ScanFolder(dcmdir, arg)), series)

\* the orders in which one scan can iterate its set of series keys
DicomDirSeriesOrders(dcmdir, all_files) ==
    Orderings(SeriesKeys(DicomDirAllTags(all_files, 1, dcmdir["RootFolder"])))

\* the dict __init__ makes before it calls scan()
DicomDirNew(folder) == [kind |-> "DicomDir", dcmdir |-> [RootFolder |-> folder]]

(***************************************************************************)
(* CMRDir.save / CMRDir.from_file: the JSON document                       *)
(***************************************************************************)
\* json.dump of a value: None, str, int, list of floats, dict with str keys
RECURSIVE JsonEncode(_)
JsonEncode(x) ==
    IF IsLeaf(x)
    THEN CASE x.py = "NoneType" -> [js |-> "null"]
           [] x.py = "str"      -> [js |-> "string", v |-> x.v]
           [] x.py = "int"      -> [js |-> "number", v |-> x.v]
           [] x.py = "list"     -> [js |-> "array", v |-> x.v]
           [] OTHER             -> [js |-> "TypeError"]
    ELSE [k \in DOMAIN x |-> JsonEncode(x[k])]

\* json.load of a value
RECURSIVE JsonDecode(_)
JsonDecode(j) ==
    IF "js" \in DOMAIN j
    THEN CASE j.js = "null"   -> PyNone
           [] j.js = "string" -> PyStr(j.v)
           [] j.js = "number" -> PyInt(j.v)
           [] j.js = "array"  -> PyList(j.v)
    ELSE [k \in DOMAIN j |-> JsonDecode(j[k])]

\* CMRDir.save: the document written to the file
CMRDir_save(D) ==
    [source    |-> JsonEncode(PyStr(D.source)),
     studyName |-> JsonEncode(D.studyName),
     dicomDir  |-> [ord |-> D.dicomDir.ord, at |-> JsonEncode(D.dicomDir.at)]]

\* CMRDir.from_file: the object built from the document
CMRDir_from_file(doc) ==
    LET new_dir == CMRDirNew(JsonDecode(doc.studyName))
    IN  [new_dir EXCEPT !.source = JsonDecode(doc.source).v,
                        !.dicomDir = [ord |-> doc.dicomDir.ord,
                                      at  |-> JsonDecode(doc.dicomDir.at)]]

(***************************************************************************)
(* The files on disk                                                       *)
(***************************************************************************)
StudyUIDs == {"s1", "s2"}
SeriesUIDs == {"e1", "e2"}
SopUIDs == {"i1", "i2"}
PatientIDs == {"p1", "p2"}
SeriesNumbers == {1, 2}

\* a recognized file's dataset.  Every recognized file carries the three
\* UIDs, PatientID, SeriesNumber and the two descriptions.
Dataset(s, e, i, p, n) ==
    [StudyInstanceUID  |-> PyStr(s), SeriesInstanceUID |-> PyStr(e),
     SOPInstanceUID    |-> PyStr(i), PatientID         |-> PyStr(p),
     SeriesNumber      |-> PyInt(n),
     StudyDescription  |-> PyStr("cmr"),
     SeriesDescription |-> PyStr("cine")]

FirstDataset == Dataset("s1", "e1", "i1", "p1", 1)

\* what the forced read gives for a file that is no DICOM: no element, or one
NoDicomData == {EmptyDict, [SpecificCharacterSet |-> PyStr("ISO_IR 100")]}

\* files that differ in study, series and instance
GroupingData ==
    {Dataset(s, e, i, "p1", 1) : s \in StudyUIDs, e \in SeriesUIDs, i \in SopUIDs}
    \cup NoDicomData

\* the k-th of distinct files of one study and one series UID, which differ
\* in patient and series number
PatientData(k) ==
    {Dataset("s1", "e1", "i" \o ToString(k), p, n) : p \in PatientIDs, n \in SeriesNumbers}

Restrict(f, S) == [k \in S |-> f[k]]

OrientationTags ==
    [ImageOrientationPatient |-> MultiValue(<<1, 0>>),
     ImageOrientation        |-> MultiValue(<<0, 1>>),
     ImagePositionPatient    |-> MultiValue(<<5>>),
     ImagePosition           |-> MultiValue(<<7>>)]

\* one file with any subset of the four orientation and position tags
TagData ==
    {Restrict(OrientationTags, S) @@ FirstDataset : S \in SUBSET DOMAIN OrientationTags}

FileName(i) == <<"f", ToString(i)>>

RootA == <<"a">>
RootB == <<"b">>

\* the folder names and file names of the path scenarios
RootNames == {<<"a">>, <<"a", Sep>>, <<Sep, "a">>}
PathNames == {<<"x">>, <<"a", Sep, "x">>}

\* the second folder: empty, or one file of another study and patient
OtherFolders ==
    {<< >>, <<[name |-> <<"g">>, dcm |-> Dataset("s2", "e2", "i2", "p2", 2)]>>}

\* the symmetry of the UIDs fixes the first file when it is recognized
GroupingFolders ==
    {F \in [1..NumFiles -> GroupingData] : F[1] \in {FirstDataset} \cup NoDicomData}

PatientFolders ==
    {F \in [1..NumFiles -> UNION {PatientData(k) : k \in 1..NumFiles}] :
        /\ F[1] = FirstDataset
        /\ \A k \in 1..NumFiles : F[k] \in PatientData(k)}

WithNames(F) == [i \in 1..Len(F) |-> [name |-> FileName(i), dcm |-> F[i]]]

Disk(rootA, filesA, filesB) ==
    [A |-> [root |-> rootA, files |-> filesA],
     B |-> [root |-> RootB, files |-> filesB]]

InitDisks ==
    {Disk(RootA, WithNames(F), G) :
        F \in GroupingFolders \cup PatientFolders \cup {<<d>> : d \in TagData},
        G \in OtherFolders}
    \cup
    {Disk(r, <<[name |-> n, dcm |-> FirstDataset]>>, G) :
        r \in RootNames, n \in PathNames, G \in OtherFolders}

\* a path that names no directory
Missing == <<"n", "o">>

Folders == {disk[d].root : d \in DOMAIN disk} \cup {Missing}

(***************************************************************************)
(* The client: it builds one catalog (pc "start" to "held"), may rescan a  *)
(* DicomDir, and may save once and load                                    *)
(***************************************************************************)
NoObject == [kind |-> "None"]
NoFile == [kind |-> "no file"]
NoCall == [op |-> "none"]

Init ==
    /\ disk \in InitDisks
    /\ pc = "start"
    /\ call = NoCall
    /\ err = "ok"
    /\ log = {}
    /\ obj = NoObject
    /\ snapshot = NoFile
    /\ loaded = NoObject

\* D = CMRDir.from_folder(dicomFolder, studyName, quiet)
CMRDirFromFolder(dicomFolder, studyName, quiet) ==
    /\ pc = "start"
    /\ call' = [op |-> "CMRDir.from_folder", folder |-> dicomFolder]
    /\ IF ~IsDir(dicomFolder)
       THEN /\ err' = "ValueError: Not a folder"
            /\ obj' = NoObject
            /\ log' = {}
       ELSE /\ err' = "ok"
            /\ obj' = CMRDir_from_folder(dicomFolder, studyName)
            /\ log' = CMRDirReported(Walk(dicomFolder), quiet)
    /\ pc' = "held"
    /\ UNCHANGED <<disk, snapshot, loaded>>

\* S = CMRStudy.from_folder(folder_name)
CMRStudyFromFolder(folder_name) ==
    /\ pc = "start"
    /\ call' = [op |-> "CMRStudy.from_folder", folder |-> folder_name]
    /\ log' = {}
    /\ IF ~IsDir(folder_name)
       THEN /\ err' = "ValueError: not a folder"
            /\ obj' = NoObject
       ELSE LET r == CMRStudy_from_folder(folder_name)
            IN  /\ err' = r.err
                /\ obj' = IF r.err = "ok" THEN r.ret ELSE NoObject
    /\ pc' = "held"
    /\ UNCHANGED <<disk, snapshot, loaded>>

\* d = DicomDir(folder): __init__ and the scan() it calls
DicomDirInit(folder) ==
    /\ pc = "start"
    /\ call' = [op |-> "DicomDir", folder |-> folder]
    /\ IF ~IsDir(folder)
       THEN /\ err' = "AssertionError: not a directory"
            /\ obj' = NoObject
            /\ log' = {}
       ELSE LET new == DicomDirNew(folder)
            IN  /\ log' = DicomDirReported(Walk(folder), folder)
                /\ \E series \in DicomDirSeriesOrders(new.dcmdir, Walk(folder)) :
                      LET r == DicomDir_scan(new.dcmdir, PyNone, series)
                      IN  /\ err' = r.err
                          /\ obj' = IF r.err = "ok"
                                    THEN [new EXCEPT !.dcmdir = r.dcmdir]
                                    ELSE NoObject
    /\ pc' = "held"
    /\ UNCHANGED <<disk, snapshot, loaded>>

\* d.scan(folder) on the DicomDir the client holds
DicomDirScan(arg) ==
    /\ pc = "held"
    /\ obj.kind = "DicomDir"
    /\ call' = [op |-> "DicomDir.scan", folder |-> ScanFolder(obj.dcmdir, arg)]
    /\ log' = DicomDirReported(Walk(call'.folder), obj.dcmdir["RootFolder"])
    /\ \E series \in DicomDirSeriesOrders(obj.dcmdir, Walk(ScanFolder(obj.dcmdir, arg))) :
          LET r == DicomDir_scan(obj.dcmdir, arg, series)
          IN  /\ err' = r.err
              /\ obj' = [obj EXCEPT !.dcmdir = r.dcmdir]
    /\ UNCHANGED <<disk, pc, snapshot, loaded>>

\* D.save(filename); `of` remembers the object that was saved
CMRDirSave ==
    /\ pc = "held"
    /\ obj.kind = "CMRDir"
    /\ snapshot' = [kind |-> "file", doc |-> CMRDir_save(obj), of |-> obj]
    /\ pc' = "saved"
    /\ call' = [op |-> "CMRDir.save"]
    /\ err' = "ok"
    /\ UNCHANGED <<disk, log, obj, loaded>>

\* CMRDir.from_file(filename)
CMRDirFromFile ==
    /\ pc = "saved"
    /\ loaded' = CMRDir_from_file(snapshot.doc)
    /\ pc' = "loaded"
    /\ call' = [op |-> "CMRDir.from_file"]
    /\ err' = "ok"
    /\ UNCHANGED <<disk, log, obj, snapshot>>

\* CMRStudy.from_file(file_name), to get back the study the client holds
CMRStudyFromFile ==
    /\ pc = "held"
    /\ obj.kind = "CMRStudy"
    /\ loaded' = CMRStudy_from_file(<<"s", ".", "j">>)
    /\ pc' = "loaded"
    /\ call' = [op |-> "CMRStudy.from_file"]
    /\ err' = "ok"
    /\ UNCHANGED <<disk, log, obj, snapshot>>

Next ==
    \/ \E f \in Folders, n \in {PyNone, PyStr(<<"n">>)}, q \in BOOLEAN :
          CMRDirFromFolder(f, n, q)
    \/ \E f \in Folders : CMRStudyFromFolder(f)
    \/ \E f \in Folders : DicomDirInit(f)
    \/ \E a \in {PyNone} \cup {PyStr(f) : f \in Folders} : DicomDirScan(a)
    \/ CMRDirSave
    \/ CMRDirFromFile
    \/ CMRStudyFromFile

Spec == Init /\ [][Next]_vars

(***************************************************************************)
(* What the properties speak about                                         *)
(***************************************************************************)
ConstructorOps == {"CMRDir.from_folder", "CMRStudy.from_folder", "DicomDir"}
SingleStudyOps == {"CMRStudy.from_folder", "DicomDir", "DicomDir.scan"}
ScanOps == ConstructorOps \cup {"DicomDir.scan"}

\* the last call was a scan of an existing folder
Scanned == call.op \in ScanOps /\ IsDir(call.folder)

\* ... and it raised nothing
ScannedOk == Scanned /\ err = "ok"

\* the files of the scanned folder, in the order they were enumerated
Files == Walk(call.folder)

\* the positions of the recognized files
Recognized == {i \in 1..Len(Files) : read_dicom(Files[i].file) # NotDicom}

Uid(i, tag) == Files[i].file.dcm[tag].v

\* the (study, series, instance) identity of a recognized file
Triple(i) ==
    <<Uid(i, "StudyInstanceUID"), Uid(i, "SeriesInstanceUID"), Uid(i, "SOPInstanceUID")>>

\* recognized files that no other file shares its identity with
Unique == {i \in Recognized : \A j \in Recognized : Triple(j) = Triple(i) => j = i}

\* the instances a catalog stores for one (study, series, instance) identity,
\* whichever series entry they are stored under
StoredFor(o, t) ==
    IF o.kind = "CMRDir"
    THEN IF /\ t[1] \in DOMAIN o.dicomDir.at
            /\ t[2] \in get_series_uids(o, t[1])
            /\ t[3] \in get_sop_uids(o, t[1], t[2])
         THEN {<<1, o.dicomDir.at[t[1]][t[2]][t[3]]>>} ELSE {}
    ELSE IF o.kind = "CMRStudy"
    THEN IF /\ o.study_instance_uid = PyStr(t[1])
            /\ t[2] \in DOMAIN o.dcmdir["Series"]
            /\ t[3] \in DOMAIN o.dcmdir["Series"][t[2]]["Instances"]
         THEN {<<1, o.dcmdir["Series"][t[2]]["Instances"][t[3]]>>} ELSE {}
    ELSE IF o.kind = "DicomDir" /\ "Series" \in DOMAIN o.dcmdir
    THEN IF o.dcmdir["StudyInstanceUID"] = PyStr(t[1])
         THEN UNION {{<<<<k, m>>, o.dcmdir["Series"][k]["Images"][m]>> :
                        m \in {n \in 1..Len(o.dcmdir["Series"][k]["Images"]) :
                                 o.dcmdir["Series"][k]["Images"][n]["SOPInstanceUID"]
                                    = PyStr(t[3])}} :
                     k \in {q \in 1..Len(o.dcmdir["Series"]) :
                              o.dcmdir["Series"][q]["SeriesInstanceUID"] = PyStr(t[2])}}
         ELSE {}
    ELSE {}

\* the instance stored for a file whose identity is unique in the folder
InstanceOf(o, i) == (CHOOSE e \in StoredFor(o, Triple(i)) : TRUE)[2]

\* the folder a catalog records as its root
RecordedRoot(o) ==
    IF o.kind = "DicomDir" THEN o.dcmdir["RootFolder"] ELSE o.source

\* the PatientID a catalog records for a study
RecordedPatient(o, study) ==
    IF o.kind = "CMRDir" THEN o.dicomDir.at[study]["PatientID"]
    ELSE o.dcmdir["PatientID"]

\* the skip of file i is recorded in the scan's output
SkipRecorded(i) ==
    \E m \in log : \E r \in {<< >>, call.folder, PathJoin(call.folder, << >>)} :
        m = StrRemove(Files[i].path, r)

(***************************************************************************)
(* C1 (as claimed): after a scan of a folder in which two recognized files *)
(* carry the same SOPInstanceUID within the same study and series, the     *)
(* scan has failed, or exactly one instance is stored for that UID and a   *)
(* skip of one of the two files is recorded.  (Any exception is accepted   *)
(* as the failure.)  CMRDir.from_folder overwrites without either;         *)
(* DicomDir.scan stores both.                                              *)
(***************************************************************************)
C1_NoSilentOverwrite ==
    Scanned =>
      \A i, j \in Recognized :
         (i < j /\ Triple(i) = Triple(j)) =>
            \/ err # "ok"
            \/ /\ Cardinality(StoredFor(obj, Triple(i))) = 1
               /\ SkipRecorded(i) \/ SkipRecorded(j)

(***************************************************************************)
(* C2                                                                      *)
(***************************************************************************)
MultipleStudiesErrors ==
    {"AssertionError: Found 2 StudyInstanceUID", "AssertionError: studies"}

\* a single-study scan of a folder with two recognized files of different
\* StudyInstanceUID
TwoStudies ==
    /\ call.op \in SingleStudyOps /\ IsDir(call.folder)
    /\ \E i, j \in Recognized : Uid(i, "StudyInstanceUID") # Uid(j, "StudyInstanceUID")

\* a constructor that raised returned nothing
NothingReturned == call.op \in ConstructorOps => obj = NoObject

DuplicateBeforeSecondStudy ==
    \E i, j \in Recognized :
       /\ i < j /\ Triple(i) = Triple(j)
       /\ \A k \in Recognized :
             k < j => Uid(k, "StudyInstanceUID") = Uid(i, "StudyInstanceUID")

C3_OnePatientPerStudy ==
    Scanned =>
      /\ err = "ok" =>
           \A i \in Recognized :
              RecordedPatient(obj, Uid(i, "StudyInstanceUID")) = Files[i].file.dcm["PatientID"]
      /\ (\E i, j \in Recognized :
             /\ Uid(i, "StudyInstanceUID") = Uid(j, "StudyInstanceUID")
             /\ Uid(i, "PatientID") # Uid(j, "PatientID"))
         => err # "ok"

(***************************************************************************)
(* C4 (as claimed): a scan of a folder with no recognized file raises      *)
(* nothing and returns an empty catalog with no study, whose               *)
(* get_patient_id() is None.  DicomDir's scan fails its first assertion    *)
(* on such a folder: the set of StudyInstanceUIDs is empty, not of size 1. *)
(***************************************************************************)
CatalogIsEmpty(o) ==
    IF o.kind = "CMRDir"
    THEN is_empty(o) /\ Len(get_study_uids(o)) = 0 /\ get_patient_id(o) = PyNone
    ELSE IF o.kind = "CMRStudy"
    THEN CMRStudy_is_empty(o) /\ o.study_instance_uid = PyNone
    ELSE FALSE

\* C4 (as claimed): a scan of a folder with no recognized file raises nothing
\* and returns an empty catalog whose get_patient_id() is None
C4_EmptyFolderEmptyCatalog ==
    (Scanned /\ Recognized = {}) => (err = "ok" /\ CatalogIsEmpty(obj))

(***************************************************************************)
(* C5: CMRDir.from_folder over a folder whose recognized files span S      *)
(* StudyInstanceUIDs and I distinct (study, series, instance) identities,  *)
(* with any number of unrecognized files, completes; get_study_uids() has  *)
(* length S, and get_series_uids / get_sop_uids reach exactly I instances, *)
(* as many as get_all_filenames() lists.                                   *)
(***************************************************************************)
CountViaSeries(o) ==
    Cardinality({<<st, se, so>> \in
        UNION {UNION {{<<u, w, x>> : x \in get_sop_uids(o, u, w)} :
                         w \in get_series_uids(o, u)} :
                  u \in {get_study_uids(o)[k] : k \in 1..Len(get_study_uids(o))}} :
        TRUE})

\* C5: CMRDir.from_folder completes; get_study_uids() has as many entries as
\* the recognized files have StudyInstanceUIDs, and the instances reached, like
\* the filenames listed, are as many as their distinct identities
C5_CountsMatch ==
    (call.op = "CMRDir.from_folder" /\ IsDir(call.folder)) =>
      /\ err = "ok"
      /\ obj.kind = "CMRDir"
      /\ Len(get_study_uids(obj)) =
            Cardinality({Uid(i, "StudyInstanceUID") : i \in Recognized})
      /\ CountViaSeries(obj) = Cardinality({Triple(i) : i \in Recognized})
      /\ Cardinality(DOMAIN get_all_filenames(obj)) =
            Cardinality({Triple(i) : i \in Recognized})

\* C5 witness: a folder with an unrecognized file and recognized files of
\* two studies, scanned by CMRDir.from_folder
C5_Witness ==
    /\ call.op = "CMRDir.from_folder" /\ IsDir(call.folder) /\ err = "ok"
    /\ Recognized # {} /\ Recognized # 1..Len(Files)
    /\ Len(get_study_uids(obj)) = 2
    /\ Cardinality(DOMAIN get_all_filenames(obj)) = 2

(***************************************************************************)
(* C6 (as claimed): the object loaded from a snapshot equals the catalog   *)
(* it was saved from: source folder, label and the whole tree.             *)
(* CMRDir.save / CMRDir.from_file do this; CMRStudy.from_file returns the  *)
(* class CMRStudy, whatever file it is given.                              *)
(***************************************************************************)
C6_RoundTrip ==
    pc = "loaded" =>
      loaded = (IF call.op = "CMRDir.from_file" THEN snapshot.of ELSE obj)

(***************************************************************************)
(* C7 (as claimed): whatever the order in which the walker enumerates the  *)
(* folder's files, a scan fails or succeeds alike and a successful one     *)
(* gives the same studies, series, instances and stored tag values.        *)
(* CMRDir.from_folder and CMRStudy.from_folder take the study and series   *)
(* tags from the first file they meet.                                     *)
(***************************************************************************)
\* the enumerations of the scanned folder
Enumerations ==
    {[i \in 1..Len(Files) |-> Files[q[i]]] : q \in Permutations(1..Len(Files))}

\* a DicomDir dict without the order of its lists
Unordered(dcmdir) ==
    [study  |-> Restrict(dcmdir, DicomDir_STUDY_TAGS),
     series |-> {[tags   |-> Restrict(dcmdir["Series"][k], DicomDir_SERIES_TAGS),
                  images |-> {dcmdir["Series"][k]["Images"][m] :
                                 m \in 1..Len(dcmdir["Series"][k]["Images"])}] :
                   k \in 1..Len(dcmdir["Series"])}]

\* C7 (as claimed): every enumeration of the scanned folder gives the outcome
\* and the catalog the scan gave
C7_OrderIndependent ==
    (call.op \in ConstructorOps /\ IsDir(call.folder)) =>
      \A W \in Enumerations :
         IF call.op = "CMRDir.from_folder"
         THEN CMRDirLoop(CMRDirNew(PyNone).dicomDir, W, 1, call.folder).at
                 = obj.dicomDir.at
         ELSE IF call.op = "CMRStudy.from_folder"
         THEN LET L == CMRStudyLoop([err |-> "ok", study_iuid |-> PyNone,
                                     dd |-> EmptyDict], W, 1, call.folder)
              IN  /\ (L.err = "ok") = (err = "ok")
                  /\ err = "ok" => L.dd = obj.dcmdir
         ELSE \A series \in DicomDirSeriesOrders(DicomDirNew(call.folder).dcmdir, W) :
                 LET r == DicomDirScanFiles(DicomDirNew(call.folder).dcmdir,
                                            call.folder, W, series)
                 IN  /\ (r.err = "ok") = (err = "ok")
                     /\ err = "ok" => Unordered(r.dcmdir) = Unordered(obj.dcmdir)

(***************************************************************************)
(* C8 (as claimed): the instance stored for a recognized file has, as its  *)
(* ImageOrientationPatient (ImagePositionPatient), the file's tag of that  *)
(* name when present, else the file's ImageOrientation (ImagePosition)     *)
(* when present, else None.  DicomDir.scan does this; CMRDir.from_folder   *)
(* and CMRStudy.from_folder store the four tags as they find them, so a    *)
(* file with only the unqualified tag leaves the attribute None.           *)
(***************************************************************************)
Resolved(dcm, tt) ==
    IF tt \in DOMAIN dcm THEN get_tag(dcm, tt) ELSE get_tag(dcm, OldTag(tt))

\* a stored value, as a list whether it is kept as MultiValue or as list
AsList(x) == IF x.py = "MultiValue" THEN PyList(x.v) ELSE x

\* C8 (as claimed): the stored ImageOrientationPatient / ImagePositionPatient
\* is the file's Patient tag, else its unqualified tag, else None
C8_OrientationFallback ==
    ScannedOk =>
      \A i \in Unique : \A tt \in {"ImageOrientationPatient", "ImagePositionPatient"} :
         AsList(InstanceOf(obj, i)[tt]) = Resolved(Files[i].file.dcm, tt)

(***************************************************************************)
(* C9 (as claimed): after a successful scan every stored Filename is the   *)
(* file's path relative to the root folder the catalog records: the root   *)
(* joined with the Filename (by os.path.join, or written one after the     *)
(* other) is the path of the file that was scanned.  DicomDir.scan(folder) *)
(* removes the previous RootFolder from the paths and then records the new *)
(* one; str.replace also removes the root wherever it occurs again inside  *)
(* the path.                                                               *)
(***************************************************************************)
C9_FilenameRelativeToRoot ==
    ScannedOk =>
      \A i \in Unique :
         LET name == InstanceOf(obj, i)["Filename"].v
             root == RecordedRoot(obj)
         IN  Files[i].path \in {PathJoin(root, name), root \o name}

(***************************************************************************)
(* C10 (as claimed): a successful single-study scan has one Series entry   *)
(* per distinct (SeriesInstanceUID, SeriesNumber) pair of the recognized   *)
(* files, and every file's instance is in exactly one entry.               *)
(* CMRStudy.from_folder keys its Series by SeriesInstanceUID alone.        *)
(***************************************************************************)
SeriesEntries(o) ==
    IF o.kind = "CMRStudy"
    THEN IF CMRStudy_is_empty(o) THEN 0 ELSE Cardinality(DOMAIN o.dcmdir["Series"])
    ELSE Len(o.dcmdir["Series"])

\* C10 (as claimed): one Series entry per (SeriesInstanceUID, SeriesNumber)
\* pair, every instance in exactly one entry
C10_SeriesKeyedByUidAndNumber ==
    (ScannedOk /\ call.op \in SingleStudyOps) =>
      /\ SeriesEntries(obj) =
            Cardinality({<<Uid(i, "SeriesInstanceUID"), Uid(i, "SeriesNumber")>> :
                            i \in Recognized})
      /\ \A i \in Unique : Cardinality(StoredFor(obj, Triple(i))) = 1

(***************************************************************************)
(* C11: a scan that ends in a fatal error exposes no partial catalog.  The *)
(* constructors (CMRStudy.from_folder, DicomDir) raise out of the call, so *)
(* the client holds no object; DicomDir.scan makes both assertions before  *)
(* its first assignment to self.dcmdir, so a failed rescan leaves the      *)
(* object's dict as it was.                                                *)
(***************************************************************************)
FatalErrors ==
    MultipleStudiesErrors \cup
      {"AssertionError: patients", "AssertionError: Duplicate SOPInstanceUID"}

\* a constructor-style scan that ended in a fatal error returned no object
FatalConstructorReturnsNothing ==
    (call.op \in ConstructorOps /\ err \in FatalErrors) => obj = NoObject

\* a step that is a d.scan(folder) call ending in a fatal error leaves the
\* object (RootFolder, study tags, Series) as it was
FailedRescanKeepsCatalog ==
    (pc = "held" /\ obj.kind = "DicomDir" /\ call'.op = "DicomDir.scan"
        /\ err' \in FatalErrors)
    => obj' = obj

\* C11: a scan that ends in a fatal error exposes no partial catalog: a
\* constructor returns no object, and a failed DicomDir.scan on a scanned
\* object leaves its catalog exactly as before the call
C11_NoPartialCatalog ==
    /\ []FatalConstructorReturnsNothing
    /\ [][FailedRescanKeepsCatalog]_vars

\* C11 witness: a DicomDir scanned from one folder was rescanned on another
\* folder that holds two studies; the call failed and the object still has
\* its first catalog
C11_Witness ==
    /\ pc = "held" /\ call.op = "DicomDir.scan"
    /\ err = "AssertionError: studies"
    /\ \E i, j \in Recognized : Uid(i, "StudyInstanceUID") # Uid(j, "StudyInstanceUID")
    /\ obj.kind = "DicomDir" /\ "Series" \in DOMAIN obj.dcmdir
    /\ obj.dcmdir["RootFolder"] # call.folder
    /\ Len(obj.dcmdir["Series"]) = 1

=============================================================================
